---- MODULE Spec2Model ----
(***************************************************************************)
(* Model of the acousticdi data-link stack:                                *)
(*   - the packet framer of src/src/lib.rs (Packet::new_packets, unpack,   *)
(*     seal, unseal),                                                      *)
(*   - the receiver state machine of src/src/transmission.rs on top of     *)
(*     detect_preamble of src/src/physics.rs,                              *)
(*   - the producer/consumer sample buffer of src/src/recorder.rs,         *)
(*   - detect_preamble of src/src/physics.rs as a function of its probe,   *)
(*   - the modulation and demodulation of src/src/physics.rs and the BPSK  *)
(*     modulate of src/src/lib.rs.                                         *)
(* Each part has its own specification; the variables of the other parts   *)
(* stay at their initial values.                                           *)
(***************************************************************************)
EXTENDS Integers, Sequences, FiniteSets, TLC

VARIABLES
  f_pc,        \* framer pipeline position
  f_bytes,     \* the byte sequence given to new_packets
  f_src,       \* "chunk": packets come from new_packets, "caller": built by the caller
  f_packets,   \* the packet list P
  f_sealed,    \* seal(P), in the order seal emitted the frames
  f_fed,       \* the frames as fed to unseal
  f_unsealed,  \* unseal(f_fed)
  f_via,       \* "direct": unpack(P), "wire": unpack(unseal(..))
  f_out        \* the reassembled bytes

framerVars == <<f_pc, f_bytes, f_src, f_packets, f_sealed, f_fed, f_unsealed, f_via, f_out>>

VARIABLES
  stream,               \* the sample source, run-length coded: <<[col, len], ...>>
  r_pc,                 \* position of Receiver::run
  r_call,               \* which detect_preambles call is running: 0 in run, 1..3 in verify_preamble
  processed_samples,    \* Receiver.processed_samples
  samples,              \* offset at which the probe held by `samples` was taken
  cumulated_pos_votes,
  cumulated_neg_votes,
  cumulated_spaces

receiverVars == <<stream, r_pc, r_call, processed_samples, samples,
                  cumulated_pos_votes, cumulated_neg_votes, cumulated_spaces>>

VARIABLES
  ring_buffer,   \* Recorder.ring_buffer: the samples appended so far
  lock,          \* holder of the buffer mutex: "free", "producer" or "consumer"
  p_pc,          \* position of the capture callback (write_input_data)
  p_input,       \* the samples handed to the running callback
  c_pc,          \* position of the consumer in Recorder::take_samples
  c_start,       \* arguments of the running take_samples call
  c_end,
  c_result       \* what the last take_samples call returned

recorderVars == <<ring_buffer, lock, p_pc, p_input, c_pc, c_start, c_end, c_result>>

VARIABLES
  d_pc,       \* position of the detect_preamble call: "input", "returned" or "panicked"
  d_probe,    \* the columns of the probe, run-length coded like a stream
  d_result    \* what detect_preamble returned

detectorVars == <<d_pc, d_probe, d_result>>

VARIABLES
  m_pc,       \* position of the modulation round trip
  m_fn,       \* the function under call
  m_in,       \* the value given to it
  m_wave,     \* the waveform it returned
  m_column,   \* the spectrogram column picked by demodulate_half_byte
  m_freqs,    \* what detect_main_freqs returned for it
  m_out       \* what demodulate_half_byte returned

modemVars == <<m_pc, m_fn, m_in, m_wave, m_column, m_freqs, m_out>>

vars == <<framerVars, receiverVars, recorderVars, detectorVars, modemVars>>

\* the parts that a specification does not run stay idle
FramerIdle ==
  /\ f_pc = "idle"
  /\ f_bytes = <<>>
  /\ f_src = "none"
  /\ f_packets = <<>>
  /\ f_sealed = <<>>
  /\ f_fed = <<>>
  /\ f_unsealed = <<>>
  /\ f_via = "none"
  /\ f_out = <<>>

ReceiverIdle ==
  /\ stream = <<>>
  /\ r_pc = "idle"
  /\ r_call = 0
  /\ processed_samples = 0
  /\ samples = 0
  /\ cumulated_pos_votes = 0
  /\ cumulated_neg_votes = 0
  /\ cumulated_spaces = 0

RecorderIdle ==
  /\ ring_buffer = <<>>
  /\ lock = "free"
  /\ p_pc = "off"
  /\ p_input = <<>>
  /\ c_pc = "off"
  /\ c_start = 0
  /\ c_end = 0
  /\ c_result = <<>>

DetectorIdle ==
  /\ d_pc = "idle"
  /\ d_probe = <<>>
  /\ d_result = [kind |-> "none"]

ModemIdle ==
  /\ m_pc = "idle"
  /\ m_fn = "none"
  /\ m_in = 0
  /\ m_wave = [kind |-> "none"]
  /\ m_column = <<>>
  /\ m_freqs = <<>>
  /\ m_out = [kind |-> "none"]

(***************************************************************************)
(* Bounds                                                                  *)
(***************************************************************************)
MaxLen == 258            \* longest input of new_packets (3 packets)
MaxCallerPackets == 2    \* longest caller-built packet list
MaxSegs == 4             \* most runs of equal columns in a stream
ShortRun == 5            \* a run too short to confirm a bit
LongRun == 25            \* a run long enough to confirm a bit
WideRun == 250           \* the longest run of the preamble-shaped streams
OverRun == 260           \* a run longer than the 8-bit vote counter holds
MaxProduced == 5         \* samples the capture callback delivers at most
MaxChunk == 2            \* samples of one capture callback at most
MaxProbeRuns == 3        \* most runs of a short probe of detect_preamble
MaxProbeRunLen == 2      \* longest run of a short probe
MaxSegments == 2         \* most segments given to modulate
MaxSegmentLen == 2       \* most bytes of a segment

(***************************************************************************)
(* Packet framer, src/src/lib.rs                                           *)
(***************************************************************************)
MAX_PACKET_SIZE == 128

Min(a, b) == IF a < b THEN a ELSE b

Packet(order, data) == [order |-> order, data |-> data]

\* variant of chunks that drops a trailing piece shorter than the packet size
RECURSIVE chunks_exact(_, _)
chunks_exact(v, i) ==
  IF Len(v) < MAX_PACKET_SIZE THEN <<>>
  ELSE <<Packet(i, SubSeq(v, 1, MAX_PACKET_SIZE))>>
         \o chunks_exact(SubSeq(v, MAX_PACKET_SIZE + 1, Len(v)), i + 1)

\* <[u8]>::chunks(size) followed by enumerate(): the chunk index starts at i
RECURSIVE chunks(_, _)
chunks(v, i) ==
  IF v = <<>> THEN <<>>
  ELSE LET n == Min(MAX_PACKET_SIZE, Len(v))
       IN  <<Packet(i, SubSeq(v, 1, n))>> \o chunks(SubSeq(v, n + 1, Len(v)), i + 1)

\* variant of new_packets that numbers the packets from 1
new_packets_one_based(v) == chunks(v, 1)

new_packets(v) == chunks(v, 0)

\* stable insertion of x behind every element whose key is <= x.order
RECURSIVE InsertByOrder(_, _)
InsertByOrder(x, s) ==
  IF s = <<>> THEN <<x>>
  ELSE IF Head(s).order <= x.order
       THEN <<Head(s)>> \o InsertByOrder(x, Tail(s))
       ELSE <<x>> \o s

\* variant of sort_by_key that leaves the list as it is
sort_by_key_skipped(vp) == vp

\* Vec::sort_by_key(|x| x.order): a stable sort, ascending
RECURSIVE sort_by_key(_)
sort_by_key(vp) ==
  IF vp = <<>> THEN <<>>
  ELSE InsertByOrder(vp[Len(vp)], sort_by_key(SubSeq(vp, 1, Len(vp) - 1)))

RECURSIVE ConcatData(_)
ConcatData(vp) ==
  IF vp = <<>> THEN <<>> ELSE Head(vp).data \o ConcatData(Tail(vp))

unpack(vp) == ConcatData(sort_by_key(vp))

\* usize::to_le_bytes on a 64-bit target: k bytes, least significant first
RECURSIVE LeBytes(_, _)
LeBytes(n, k) ==
  IF k = 0 THEN <<>> ELSE <<n % 256>> \o LeBytes(n \div 256, k - 1)

to_le_bytes(n) == LeBytes(n, 8)

\* usize::from_le_bytes
RECURSIVE from_le_bytes(_)
from_le_bytes(b) ==
  IF b = <<>> THEN 0 ELSE Head(b) + 256 * from_le_bytes(Tail(b))

\* variant of seal_one that writes the length before the order
seal_one_swapped(p) == to_le_bytes(Len(p.data)) \o to_le_bytes(p.order) \o p.data

seal_one(p) == to_le_bytes(p.order) \o to_le_bytes(Len(p.data)) \o p.data

seal(s) == [i \in 1..Len(s) |-> seal_one(s[i])]

\* unseal_one: the slices v[0..8], v[8..16] and v[16..16+len] panic when the
\* frame is too short; there is no error return.
Panic == [panic |-> TRUE]

Returned(x) == [panic |-> FALSE, value |-> x]

unseal_one(v) ==
  IF Len(v) < 16 THEN Panic
  ELSE LET order == from_le_bytes(SubSeq(v, 1, 8))
           len   == from_le_bytes(SubSeq(v, 9, 16))
       IN  IF 16 + len > Len(v) THEN Panic
           ELSE Returned(Packet(order, SubSeq(v, 17, 16 + len)))

\* the first frame that panics aborts the whole call
unseal(v) ==
  IF \E i \in 1..Len(v) : unseal_one(v[i]).panic THEN Panic
  ELSE Returned([i \in 1..Len(v) |-> unseal_one(v[i]).value])

(***************************************************************************)
(* Inputs of the framer                                                    *)
(***************************************************************************)
HelloWorld == <<104, 101, 108, 108, 111, 32, 119, 111, 114, 108, 100>>

Seeds == {0, 250}

PatternBytes(len, seed) == [i \in 1..len |-> (seed + 7 * i) % 256]

Inputs == {PatternBytes(n, s) : n \in 0..MaxLen, s \in Seeds} \cup {HelloWorld}

CallerOrders == {0, 1, 256, 65537}

CallerData == {<<>>, <<65>>, <<66, 67>>}

CallerPacket == {Packet(o, d) : o \in CallerOrders, d \in CallerData}

CallerPackets ==
  UNION {[1..n -> CallerPacket] : n \in 1..MaxCallerPackets}

Perms(n) == {p \in [1..n -> 1..n] : \A i, j \in 1..n : p[i] = p[j] => i = j}

\* the lengths a frame of length n can be cut down to
CutLens(n) == {k \in {0, 15, 16, n - 1} : 0 <= k /\ k < n}

Truncate(frames, i, k) ==
  [j \in 1..Len(frames) |-> IF j = i THEN SubSeq(frames[j], 1, k) ELSE frames[j]]

\* a frame shorter than its 16-byte header or than 16 + its declared length
ShortFrame(v) ==
  \/ Len(v) < 16
  \/ Len(v) < 16 + from_le_bytes(SubSeq(v, 9, 16))

FramerInit ==
  /\ f_pc = "input"
  /\ \/ /\ f_src = "chunk"
        /\ f_bytes \in Inputs
        /\ f_packets = <<>>
     \/ /\ f_src = "caller"
        /\ f_bytes = <<>>
        /\ f_packets \in CallerPackets
  /\ f_sealed = <<>>
  /\ f_fed = <<>>
  /\ f_unsealed = <<>>
  /\ f_via = "none"
  /\ f_out = <<>>
  /\ ReceiverIdle
  /\ RecorderIdle
  /\ DetectorIdle
  /\ ModemIdle

\* Packet::new_packets(&bytes)
NewPackets ==
  /\ f_pc = "input"
  /\ f_src = "chunk"
  /\ f_packets' = new_packets(f_bytes)
  /\ f_pc' = "packed"
  /\ UNCHANGED <<f_bytes, f_src, f_sealed, f_fed, f_unsealed, f_via, f_out>>
  /\ UNCHANGED <<receiverVars, recorderVars, detectorVars, modemVars>>

\* the caller hands over packets built with Packet::from
OwnPackets ==
  /\ f_pc = "input"
  /\ f_src = "caller"
  /\ f_pc' = "packed"
  /\ UNCHANGED <<f_bytes, f_src, f_packets, f_sealed, f_fed, f_unsealed, f_via, f_out>>
  /\ UNCHANGED <<receiverVars, recorderVars, detectorVars, modemVars>>

\* Packet::unpack(&packets), as in pack_unpack_test
UnpackDirect ==
  /\ f_pc = "packed"
  /\ f_out' = unpack(f_packets)
  /\ f_via' = "direct"
  /\ f_pc' = "done"
  /\ UNCHANGED <<f_bytes, f_src, f_packets, f_sealed, f_fed, f_unsealed>>
  /\ UNCHANGED <<receiverVars, recorderVars, detectorVars, modemVars>>

\* Packet::seal(&packets)
Seal ==
  /\ f_pc = "packed"
  /\ f_sealed' = seal(f_packets)
  /\ f_pc' = "sealed"
  /\ UNCHANGED <<f_bytes, f_src, f_packets, f_fed, f_unsealed, f_via, f_out>>
  /\ UNCHANGED <<receiverVars, recorderVars, detectorVars, modemVars>>

\* the frames reach unseal in any order
Feed ==
  /\ f_pc = "sealed"
  /\ \E p \in Perms(Len(f_sealed)) :
       f_fed' = [i \in 1..Len(f_sealed) |-> f_sealed[p[i]]]
  /\ f_pc' = "fed"
  /\ UNCHANGED <<f_bytes, f_src, f_packets, f_sealed, f_unsealed, f_via, f_out>>
  /\ UNCHANGED <<receiverVars, recorderVars, detectorVars, modemVars>>

\* one frame loses its tail on the way
Cut ==
  /\ f_pc = "fed"
  /\ \E i \in 1..Len(f_fed) : \E k \in CutLens(Len(f_fed[i])) :
       f_fed' = Truncate(f_fed, i, k)
  /\ f_pc' = "cut"
  /\ UNCHANGED <<f_bytes, f_src, f_packets, f_sealed, f_unsealed, f_via, f_out>>
  /\ UNCHANGED <<receiverVars, recorderVars, detectorVars, modemVars>>

\* Packet::unseal(&frames)
Unseal ==
  /\ f_pc \in {"fed", "cut"}
  /\ LET r == unseal(f_fed)
     IN  IF r.panic
         THEN /\ f_pc' = "panicked"
              /\ UNCHANGED f_unsealed
         ELSE /\ f_pc' = "unsealed"
              /\ f_unsealed' = r.value
  /\ UNCHANGED <<f_bytes, f_src, f_packets, f_sealed, f_fed, f_via, f_out>>
  /\ UNCHANGED <<receiverVars, recorderVars, detectorVars, modemVars>>

\* Packet::unpack(&unsealed), as in pack_unseal_test
UnpackUnsealed ==
  /\ f_pc = "unsealed"
  /\ f_out' = unpack(f_unsealed)
  /\ f_via' = "wire"
  /\ f_pc' = "done"
  /\ UNCHANGED <<f_bytes, f_src, f_packets, f_sealed, f_fed, f_unsealed>>
  /\ UNCHANGED <<receiverVars, recorderVars, detectorVars, modemVars>>

FramerNext ==
  \/ NewPackets
  \/ OwnPackets
  \/ UnpackDirect
  \/ Seal
  \/ Feed
  \/ Cut
  \/ Unseal
  \/ UnpackUnsealed

FramerSpec == FramerInit /\ [][FramerNext]_vars

(***************************************************************************)
(* Preamble detector, src/src/physics.rs                                   *)
(*                                                                         *)
(* Frequencies are integers in units of 0.01 Hz.  A spectral column is     *)
(* given by what detect_main_freqs returns for it: the non-empty list of   *)
(* its dominant frequencies, strongest first.                              *)
(***************************************************************************)
Abs(x) == IF x < 0 THEN -x ELSE x

PREAMBLE_FREQS == <<138897, 295157>>

\* STFT::new(Hanning, 256, 128)
WINDOW_SIZE == 256

STEP_SIZE == 128

\* STFT::output_size(): window_size / 2
output_size == WINDOW_SIZE \div 2

\* STFT::freqs(SAMPLE_RATE)[idx]: idx / (output_size - 1) * SAMPLE_RATE / 2
FFT_FREQS(idx) == (idx * 2205000) \div (output_size - 1)

\* number of columns stft_result computes from n samples
NumColumns(n) ==
  IF n < WINDOW_SIZE THEN 0 ELSE (n - WINDOW_SIZE) \div STEP_SIZE + 1

NoPreamble == [kind |-> "NoPreamble"]

Detected(ending_position, signal_bit, votes) ==
  [kind |-> "Detected", ending_position |-> ending_position,
   signal_bit |-> signal_bit, votes |-> votes]

\* the inner loop over main_freqs: the first frequency within 0.1 Hz of a
\* preamble frequency decides the column
RECURSIVE ColumnVote(_)
ColumnVote(main_freqs) ==
  IF main_freqs = <<>> THEN "none"
  ELSE IF Abs(Head(main_freqs) - PREAMBLE_FREQS[1]) < 10 THEN "zero"
  ELSE IF Abs(Head(main_freqs) - PREAMBLE_FREQS[2]) < 10 THEN "one"
  ELSE ColumnVote(Tail(main_freqs))

\* zero_vote += 1 / one_vote += 1 on the 8-bit counters (their type follows
\* from Preamble::Detected.votes): the sum wraps in a build without overflow
\* checks
BumpVote(v) == (v + 1) % 256

\* variant that looks at the first of the main frequencies only
ScanColumn_top(col, st) ==
  IF st.stopped THEN st
  ELSE LET v == ColumnVote(<<Head(col)>>)
           e == st.ending_position + output_size
       IN  CASE v = "zero" ->
                  IF st.one_vote # 0
                  THEN [st EXCEPT !.stopped = TRUE]
                  ELSE [st EXCEPT !.ending_position = e,
                                  !.zero_vote = BumpVote(@),
                                  !.overflowed = @ \/ st.zero_vote = 255]
             [] v = "one" ->
                  IF st.zero_vote # 0
                  THEN [st EXCEPT !.stopped = TRUE]
                  ELSE [st EXCEPT !.ending_position = e,
                                  !.one_vote = BumpVote(@),
                                  !.overflowed = @ \/ st.one_vote = 255]
             [] OTHER -> [st EXCEPT !.ending_position = e]

\* one pass of the 'outer loop; st.stopped is the break 'outer,
\* st.overflowed tells that a vote counter passed 255
ScanColumn(col, st) ==
  IF st.stopped THEN st
  ELSE LET v == ColumnVote(col)
           e == st.ending_position + output_size
       IN  CASE v = "zero" ->
                  IF st.one_vote # 0
                  THEN [st EXCEPT !.stopped = TRUE]
                  ELSE [st EXCEPT !.ending_position = e,
                                  !.zero_vote = BumpVote(@),
                                  !.overflowed = @ \/ st.zero_vote = 255]
             [] v = "one" ->
                  IF st.zero_vote # 0
                  THEN [st EXCEPT !.stopped = TRUE]
                  ELSE [st EXCEPT !.ending_position = e,
                                  !.one_vote = BumpVote(@),
                                  !.overflowed = @ \/ st.one_vote = 255]
             [] OTHER -> [st EXCEPT !.ending_position = e]

\* the passes over the columns lo .. hi in order, from the state st (the
\* range is halved to keep the evaluation shallow)
RECURSIVE ScanRange(_, _, _, _)
ScanRange(cols, lo, hi, st) ==
  IF lo > hi THEN st
  ELSE IF lo = hi THEN ScanColumn(cols[lo], st)
  ELSE LET mid == (lo + hi) \div 2
           left == ScanRange(cols, lo, mid, st)
       IN  IF left.stopped THEN left ELSE ScanRange(cols, mid + 1, hi, left)

\* the 'outer loop over all the columns
ScanColumns(cols, st) == ScanRange(cols, 1, Len(cols), st)

ScanStart ==
  [ending_position |-> 0, zero_vote |-> 0, one_vote |-> 0,
   stopped |-> FALSE, overflowed |-> FALSE]

\* variant of detect_preamble that reports no ending position
detect_preamble_stuck(cols) ==
  LET st == ScanColumns(cols, ScanStart)
  IN  IF st.zero_vote = 0 /\ st.one_vote = 0 THEN NoPreamble
      ELSE IF st.zero_vote > st.one_vote
           THEN Detected(0, 0, st.zero_vote)
           ELSE Detected(0, 1, st.one_vote)

detect_preamble(cols) ==
  LET st == ScanColumns(cols, ScanStart)
  IN  IF st.zero_vote = 0 /\ st.one_vote = 0 THEN NoPreamble
      ELSE IF st.zero_vote > st.one_vote
           THEN Detected(st.ending_position, 0, st.zero_vote)
           ELSE Detected(st.ending_position, 1, st.one_vote)

\* in a build with overflow checks detect_preamble panics on the vote that
\* passes 255 instead of returning
detect_preamble_panics(cols) == ScanColumns(cols, ScanStart).overflowed

(***************************************************************************)
(* Sample streams of the receiver                                          *)
(*                                                                         *)
(* A stream is a list of runs [col, len]: len successive columns (one per  *)
(* 128 samples) that all have the dominant frequencies col.  Column k      *)
(* (from 1) is computed from the samples 128*(k-1) .. 128*(k-1) + 255.     *)
(***************************************************************************)
ColZero == <<FFT_FREQS(8)>>

ColOne == <<FFT_FREQS(17)>>

ColNoise == <<FFT_FREQS(0)>>

Cols == {ColZero, ColOne, ColNoise}

Run(col, len) == [col |-> col, len |-> len]

RECURSIVE StreamColumns(_)
StreamColumns(segs) ==
  IF segs = <<>> THEN 0 ELSE Head(segs).len + StreamColumns(Tail(segs))

\* number of samples of the stream
StreamSamples(segs) ==
  IF segs = <<>> THEN 0 ELSE STEP_SIZE * (StreamColumns(segs) - 1) + WINDOW_SIZE

RECURSIVE ColumnAt(_, _)
ColumnAt(segs, k) ==
  IF k <= Head(segs).len THEN Head(segs).col
  ELSE ColumnAt(Tail(segs), k - Head(segs).len)

\* streams of up to MaxSegs runs, neighbouring runs differ
MixedStreams ==
  UNION {{s \in [1..n -> {Run(c, l) : c \in Cols, l \in {ShortRun, LongRun}}] :
            \A i \in 1..(n - 1) : s[i].col # s[i + 1].col} : n \in 1..MaxSegs}

\* run lengths of the four preamble bits: all long, one wide, all wide
PreambleLens ==
  {[i \in 1..4 |-> LongRun], [i \in 1..4 |-> WideRun]}
    \cup {[i \in 1..4 |-> IF i = w THEN WideRun ELSE LongRun] : w \in 1..4}

\* the preamble of prepend_preamble (0, 1, 0, 1) and what follows it
PreambleStreams ==
  {<<Run(ColZero, l[1]), Run(ColOne, l[2]), Run(ColZero, l[3]), Run(ColOne, l[4]), t>> :
     l \in PreambleLens, t \in {Run(ColNoise, 1), Run(ColZero, ShortRun)}}

\* one tone that never ends
EndlessStreams ==
  {<<Run(c, OverRun)>> : c \in {ColZero, ColOne}}
    \cup {<<Run(ColZero, LongRun), Run(ColOne, OverRun)>>}

\* the bits 1, 0, 1 without the leading 0, and what follows them
OneZeroOneStreams ==
  {<<Run(ColOne, LongRun), Run(ColZero, LongRun), Run(ColOne, LongRun), t>> :
     t \in {Run(ColNoise, 1), Run(ColNoise, 3 * LongRun), Run(ColZero, ShortRun)}}

Streams == MixedStreams \cup PreambleStreams \cup EndlessStreams

\* the streams of the runs that are checked for reaching SYNCHRONIZED
SyncStreams == PreambleStreams \cup OneZeroOneStreams \cup EndlessStreams

(***************************************************************************)
(* detect_preamble as a function of its probe, src/src/physics.rs          *)
(*                                                                         *)
(* A probe is given by the dominant frequencies of its columns, run-length *)
(* coded like a stream.  Detect is the call in a build whose arithmetic    *)
(* wraps, DetectChecked the call in a build that checks for overflow.      *)
(***************************************************************************)
\* columns whose dominant cluster holds more than one frequency
ColNoiseOne == <<FFT_FREQS(0), FFT_FREQS(17)>>

ColNoiseZero == <<FFT_FREQS(3), FFT_FREQS(0), FFT_FREQS(8)>>

ColZeroOne == <<FFT_FREQS(8), FFT_FREQS(17)>>

ColOneZero == <<FFT_FREQS(17), FFT_FREQS(8)>>

ColNoises == <<FFT_FREQS(0), FFT_FREQS(3)>>

DetectorCols ==
  Cols \cup {ColNoiseOne, ColNoiseZero, ColZeroOne, ColOneZero, ColNoises}

\* u8::MAX, the largest value of a vote counter
U8_MAX == 255

\* probes of a few short runs
ShortProbes ==
  UNION {[1..n -> {Run(c, l) : c \in DetectorCols, l \in 1..MaxProbeRunLen}] :
           n \in 0..MaxProbeRuns}

\* probes that begin with about U8_MAX columns of one preamble tone
LongProbes ==
  UNION {{<<Run(c, n)>>, <<Run(c, n), Run(t, 1)>>,
          <<Run(c, n), Run(ColNoise, 1), Run(t, 2)>>} :
           c \in {ColZero, ColOne}, t \in {ColZero, ColOne},
           n \in (U8_MAX - 1)..(U8_MAX + 2)}

DetectorProbes == ShortProbes \cup LongProbes

\* the columns stft_result and detect_main_freqs give for the probe
ProbeCols(segs) == [k \in 1..StreamColumns(segs) |-> ColumnAt(segs, k)]

DetectorInit ==
  /\ d_pc = "input"
  /\ d_probe \in DetectorProbes
  /\ d_result = [kind |-> "none"]
  /\ FramerIdle
  /\ ReceiverIdle
  /\ RecorderIdle
  /\ ModemIdle

\* detect_preamble(signal), arithmetic wraps
Detect ==
  /\ d_pc = "input"
  /\ d_pc' = "returned"
  /\ d_result' = detect_preamble(ProbeCols(d_probe))
  /\ UNCHANGED d_probe
  /\ UNCHANGED <<framerVars, receiverVars, recorderVars, modemVars>>

\* detect_preamble(signal), overflow is checked
DetectChecked ==
  /\ d_pc = "input"
  /\ IF detect_preamble_panics(ProbeCols(d_probe))
     THEN d_pc' = "panicked" /\ UNCHANGED d_result
     ELSE d_pc' = "returned" /\ d_result' = detect_preamble(ProbeCols(d_probe))
  /\ UNCHANGED d_probe
  /\ UNCHANGED <<framerVars, receiverVars, recorderVars, modemVars>>

DetectorNext == Detect \/ DetectChecked

DetectorSpec == DetectorInit /\ [][DetectorNext]_vars

(***************************************************************************)
(* Modulation and demodulation of one symbol, src/src/physics.rs and       *)
(* src/src/lib.rs                                                          *)
(*                                                                         *)
(* A waveform is given by what it is made of: the carriers summed into it  *)
(* and the divisor applied.  The transform itself is a library; a column   *)
(* of it is modelled by the energy per bin that a Hann window of 256       *)
(* samples gives for steady tones: each tone reaches its own bin and the   *)
(* two bins next to it.  Energies are in units of 1/1200, frequencies in   *)
(* 0.01 Hz.                                                                *)
(***************************************************************************)
FREQ_NUMBER == 4

CARRIER_FREQS == <<208346, 260433, 347244, 416692>>

\* the bins whose frequency label is the carrier frequency
CARRIER_BINS == <<12, 15, 20, 24>>

\* (SAMPLE_RATE * SIGNAL_TIME) as usize
SAMPLE_NUMBER == 4410

\* length of ZERO_SIGNAL
BIT_SAMPLE_NUMBER == 4400

ENERGY_UNIT == 1200

\* the 3.0 of detect_main_freqs
ENERGY_TOLERANCE == 3 * ENERGY_UNIT

\* (b & (1_u8 << i)) > 0
BitSet(b, i) == (b \div (2 ^ i)) % 2 = 1

\* the sum of the carriers i whose bit is set in b, divided by their number
\* (by 1 when there is none)
modulate_half_byte(b) ==
  LET tones == {i \in 0..(FREQ_NUMBER - 1) : BitSet(b, i)}
  IN  Returned([kind |-> "tones", tones |-> tones,
                divisor |-> IF tones = {} THEN 1 ELSE Cardinality(tones),
                len |-> SAMPLE_NUMBER])

\* lib.rs modulate_bit: ZERO_SIGNAL, its negation, or a panic
modulate_bit(b) ==
  IF b = 0 THEN Returned([kind |-> "bpsk", sign |-> 1, len |-> BIT_SAMPLE_NUMBER])
  ELSE IF b = 1 THEN Returned([kind |-> "bpsk", sign |-> -1, len |-> BIT_SAMPLE_NUMBER])
  ELSE Panic

\* a & b on 8 bits
BitAnd(a, b) ==
  LET Weight(j) == IF (a \div (2 ^ j)) % 2 = 1 /\ (b \div (2 ^ j)) % 2 = 1
                   THEN 2 ^ j ELSE 0
  IN  Weight(0) + Weight(1) + Weight(2) + Weight(3)
        + Weight(4) + Weight(5) + Weight(6) + Weight(7)

\* the argument `b & (1 << i) >> i` of modulate_bit: the shifts bind
\* tighter than the &, so it is b & ((1 << i) >> i)
BitArgument(b, i) == BitAnd(b, ((2 ^ i) % 256) \div (2 ^ i))

\* the outcomes of a list of calls put together: a panic if one of them
\* panicked, the waveforms appended in order otherwise
RECURSIVE Flatten(_)
Flatten(outcomes) ==
  IF outcomes = <<>> THEN Returned(<<>>)
  ELSE LET rest == Flatten(Tail(outcomes))
       IN  IF Head(outcomes).panic \/ rest.panic THEN Panic
           ELSE Returned(Head(outcomes).value \o rest.value)

\* one BPSK symbol as a waveform of one piece
Symbol(outcome) ==
  IF outcome.panic THEN Panic ELSE Returned(<<outcome.value>>)

\* lib.rs modulate_byte: (0..8).map(|i| modulate_bit(..)).flatten()
modulate_byte(b) ==
  Flatten([i \in 1..8 |-> Symbol(modulate_bit(BitArgument(b, i - 1)))])

\* lib.rs modulate_vector
modulate_vector(p) == Flatten([k \in 1..Len(p) |-> modulate_byte(p[k])])

\* lib.rs modulate
modulate(segments) ==
  Flatten([k \in 1..Len(segments) |-> modulate_vector(segments[k])])

\* energy, in 1/100, that carrier i of amplitude 1 leaves in the bin below
\* its own, in its own and in the bin above
LEAK ==
  <<<<2751, 6363, 3655>>, <<2641, 6343, 3768>>,
    <<2460, 6298, 3957>>, <<2317, 6254, 4106>>>>

ToneEnergy(i, bin) ==
  LET o == bin - CARRIER_BINS[i + 1]
  IN  IF o \in -1..1 THEN LEAK[i + 1][o + 2] ELSE 0

\* the column of a waveform of steady tones
ToneColumn(wave) ==
  [k \in 1..output_size |->
     ((IF 0 \in wave.tones THEN ToneEnergy(0, k - 1) ELSE 0)
      + (IF 1 \in wave.tones THEN ToneEnergy(1, k - 1) ELSE 0)
      + (IF 2 \in wave.tones THEN ToneEnergy(2, k - 1) ELSE 0)
      + (IF 3 \in wave.tones THEN ToneEnergy(3, k - 1) ELSE 0))
       * (12 \div wave.divisor)]

\* the transform of silence has the same energy in every bin: 0, or 1 when
\* the library clamps the logarithm at 0
SilentColumns == {[k \in 1..output_size |-> u] : u \in {0, ENERGY_UNIT}}

\* stft_result(stft, &fs)[result.len() / 2]: the columns the middle of the
\* symbol can give
MiddleColumns(wave) ==
  IF wave.tones = {} THEN SilentColumns ELSE {ToneColumn(wave)}

\* Vec::reverse
Reverse(v) == [p \in 1..Len(v) |-> v[Len(v) + 1 - p]]

\* where sort_by puts one more pair <<energy, idx>>: behind the pairs whose
\* energy is not above its own (the sort is stable)
InsertByEnergy(pair, sorted) ==
  SelectSeq(sorted, LAMBDA q : q[1] <= pair[1]) \o <<pair>>
    \o SelectSeq(sorted, LAMBDA q : q[1] > pair[1])

\* the pairs lo .. hi put one after the other into sorted (the range is
\* halved to keep the evaluation shallow)
RECURSIVE SortRange(_, _, _, _)
SortRange(pairs, lo, hi, sorted) ==
  IF lo > hi THEN sorted
  ELSE IF lo = hi THEN InsertByEnergy(pairs[lo], sorted)
  ELSE LET mid == (lo + hi) \div 2
           left == SortRange(pairs, lo, mid, sorted)
       IN  IF Len(left) > 0 THEN SortRange(pairs, mid + 1, hi, left) ELSE left

\* freq_col zipped with the bin numbers, sort_by on the energy, reverse
ByEnergy(freq_col) ==
  LET n == Len(freq_col)
      pairs == [k \in 1..n |-> <<freq_col[k], k - 1>>]
  IN  Reverse(SortRange(pairs, 1, n, <<>>))

\* variant that compares every energy with the energy of the top bin
MainFreqsOf_top(sorted) ==
  LET n == Len(sorted)
      Gaps == {p \in 2..n : Abs(sorted[p][1] - sorted[1][1]) > ENERGY_TOLERANCE}
      kept == IF Gaps = {} THEN n
              ELSE (CHOOSE p \in Gaps : \A q \in Gaps : p <= q) - 1
  IN  [p \in 1..kept |-> FFT_FREQS(sorted[p][2])]

\* the loop over the sorted pairs: the frequencies of the leading bins, up
\* to the first bin whose energy is more than 3.0 away from the bin before
\* it
MainFreqsOf(sorted) ==
  LET n == Len(sorted)
      Gaps == {p \in 2..n : Abs(sorted[p][1] - sorted[p - 1][1]) > ENERGY_TOLERANCE}
      kept == IF Gaps = {} THEN n
              ELSE (CHOOSE p \in Gaps : \A q \in Gaps : p <= q) - 1
  IN  [p \in 1..kept |-> FFT_FREQS(sorted[p][2])]

detect_main_freqs(freq_col) == MainFreqsOf(ByEnergy(freq_col))

\* binary_search_by on the sorted pattern: the index (from 0) of freq
Found(freq_pattern, freq) ==
  {idx \in 0..(Len(freq_pattern) - 1) : freq_pattern[idx + 1] = freq}

RECURSIVE BitsOf(_)
BitsOf(S) ==
  IF S = {} THEN 0
  ELSE LET idx == CHOOSE x \in S : TRUE IN 2 ^ idx + BitsOf(S \ {idx})

\* byte_result |= 1 << idx for every frequency; unwrap panics on a
\* frequency that the pattern does not hold
decode_by_given_freq_pattern(freq_pattern, freqs) ==
  IF \E p \in DOMAIN freqs : Found(freq_pattern, freqs[p]) = {}
  THEN Panic
  ELSE Returned(BitsOf(UNION {Found(freq_pattern, freqs[p]) : p \in DOMAIN freqs}))

\* demodulate_half_byte from the column it picked
demodulate_half_byte(freq_col) ==
  decode_by_given_freq_pattern(CARRIER_FREQS, detect_main_freqs(freq_col))

\* columns of a recorded waveform: the bins 0, 12, 13 and 127 hold one of a
\* few energies (in whole units), every other bin holds none
RecordedBins == <<0, 12, 13, 127>>

RecordedEnergies == {0, 3, 5, 8, 20}

RecordedColumns ==
  {[k \in 1..output_size |->
      IF \E j \in 1..4 : RecordedBins[j] = k - 1
      THEN e[CHOOSE j \in 1..4 : RecordedBins[j] = k - 1] * ENERGY_UNIT
      ELSE 0] : e \in [1..4 -> RecordedEnergies]}

\* the bytes that the segments given to modulate are made of
SegmentBytes == {0, 1, 2, 128, 255}

SegmentsGiven ==
  LET segment == UNION {[1..n -> SegmentBytes] : n \in 0..MaxSegmentLen}
  IN  UNION {[1..n -> segment] : n \in 0..MaxSegments}

ModemInit ==
  /\ m_pc = "input"
  /\ \/ m_fn \in {"modulate_half_byte", "modulate_bit"} /\ m_in \in 0..U8_MAX
     \/ m_fn = "demodulate_half_byte" /\ m_in = 0
     \/ m_fn = "modulate" /\ m_in \in SegmentsGiven
  /\ m_wave = [kind |-> "none"]
  /\ m_column = <<>>
  /\ m_freqs = <<>>
  /\ m_out = [kind |-> "none"]
  /\ FramerIdle
  /\ ReceiverIdle
  /\ RecorderIdle
  /\ DetectorIdle

\* physics.rs modulate_half_byte(b)
ModulateHalfByte ==
  /\ m_pc = "input"
  /\ m_fn = "modulate_half_byte"
  /\ m_wave' = modulate_half_byte(m_in)
  /\ m_pc' = IF m_wave'.panic THEN "panicked" ELSE "modulated"
  /\ UNCHANGED <<m_fn, m_in, m_column, m_freqs, m_out>>
  /\ UNCHANGED <<framerVars, receiverVars, recorderVars, detectorVars>>

\* lib.rs modulate_bit(b)
ModulateBit ==
  /\ m_pc = "input"
  /\ m_fn = "modulate_bit"
  /\ m_wave' = modulate_bit(m_in)
  /\ m_pc' = IF m_wave'.panic THEN "panicked" ELSE "modulated"
  /\ UNCHANGED <<m_fn, m_in, m_column, m_freqs, m_out>>
  /\ UNCHANGED <<framerVars, receiverVars, recorderVars, detectorVars>>

\* lib.rs modulate(segments)
Modulate ==
  /\ m_pc = "input"
  /\ m_fn = "modulate"
  /\ m_wave' = modulate(m_in)
  /\ m_pc' = IF m_wave'.panic THEN "panicked" ELSE "modulated"
  /\ UNCHANGED <<m_fn, m_in, m_column, m_freqs, m_out>>
  /\ UNCHANGED <<framerVars, receiverVars, recorderVars, detectorVars>>

\* the first two lines of demodulate_half_byte
Transform ==
  /\ m_pc = "modulated"
  /\ m_fn = "modulate_half_byte"
  /\ m_column' \in MiddleColumns(m_wave.value)
  /\ m_pc' = "transformed"
  /\ UNCHANGED <<m_fn, m_in, m_wave, m_freqs, m_out>>
  /\ UNCHANGED <<framerVars, receiverVars, recorderVars, detectorVars>>

\* the first two lines of demodulate_half_byte on a recorded waveform
Record ==
  /\ m_pc = "input"
  /\ m_fn = "demodulate_half_byte"
  /\ m_column' \in RecordedColumns
  /\ m_pc' = "transformed"
  /\ UNCHANGED <<m_fn, m_in, m_wave, m_freqs, m_out>>
  /\ UNCHANGED <<framerVars, receiverVars, recorderVars, detectorVars>>

\* the rest of demodulate_half_byte
Demodulate ==
  /\ m_pc = "transformed"
  /\ m_freqs' = detect_main_freqs(m_column)
  /\ m_out' = demodulate_half_byte(m_column)
  /\ m_pc' = IF m_out'.panic THEN "panicked" ELSE "demodulated"
  /\ UNCHANGED <<m_fn, m_in, m_wave, m_column>>
  /\ UNCHANGED <<framerVars, receiverVars, recorderVars, detectorVars>>

ModemNext ==
  ModulateHalfByte \/ ModulateBit \/ Modulate \/ Transform \/ Record \/ Demodulate

ModemSpec == ModemInit /\ [][ModemNext]_vars

(***************************************************************************)
(* Receiver, src/src/transmission.rs                                       *)
(***************************************************************************)
PROBE_SAMPLE_NUMBER == 256

\* SampleReader::take_samples(start, end) is satisfied once the source holds
\* end samples
CanTake(start, end) == end <= StreamSamples(stream)

\* variant that takes the probe one step before the cursor
ProbeColumns_early(c) ==
  [k \in 1..NumColumns(PROBE_SAMPLE_NUMBER) |->
     ColumnAt(stream, IF c = 0 THEN k ELSE c \div STEP_SIZE + k - 1)]

\* take_probe_samples at cursor c followed by stft_result: the columns of
\* the samples c .. c + PROBE_SAMPLE_NUMBER - 1
ProbeColumns(c) ==
  [k \in 1..NumColumns(PROBE_SAMPLE_NUMBER) |-> ColumnAt(stream, c \div STEP_SIZE + k)]

\* variant that verifies the sequence 1, 1, 1
SoughtBit_ones == <<0, 1, 1, 1>>[r_call + 1]

\* the bit sought by the running call: detect_preambles(0) in run, then
\* [1, 0, 1] in verify_preamble
SoughtBit == <<0, 1, 0, 1>>[r_call + 1]

\* Receiver::new followed by run, on a source that delivers one of the
\* streams of S
ReceiverStart(S) ==
  /\ stream \in S
  /\ r_pc = "scan"
  /\ r_call = 0
  /\ processed_samples = 0
  /\ samples = 0
  /\ cumulated_pos_votes = 0
  /\ cumulated_neg_votes = 0
  /\ cumulated_spaces = 0
  /\ FramerIdle
  /\ RecorderIdle
  /\ DetectorIdle
  /\ ModemIdle

\* the source never delivers the probe asked for in the outer loop
ScanStarved ==
  /\ r_pc = "scan"
  /\ ~CanTake(processed_samples, processed_samples + PROBE_SAMPLE_NUMBER)
  /\ r_pc' = "starved"
  /\ UNCHANGED <<stream, r_call, processed_samples, samples,
                 cumulated_pos_votes, cumulated_neg_votes, cumulated_spaces>>
  /\ UNCHANGED <<framerVars, recorderVars, detectorVars, modemVars>>

\* outer loop, Preamble::NoPreamble
ScanNoPreamble ==
  /\ r_pc = "scan"
  /\ CanTake(processed_samples, processed_samples + PROBE_SAMPLE_NUMBER)
  /\ detect_preamble(ProbeColumns(processed_samples)) = NoPreamble
  /\ processed_samples' = processed_samples + PROBE_SAMPLE_NUMBER
  /\ UNCHANGED <<stream, r_pc, r_call, samples,
                 cumulated_pos_votes, cumulated_neg_votes, cumulated_spaces>>
  /\ UNCHANGED <<framerVars, recorderVars, detectorVars, modemVars>>

\* outer loop, Preamble::Detected with signal_bit != bit
ScanOtherBit ==
  /\ r_pc = "scan"
  /\ CanTake(processed_samples, processed_samples + PROBE_SAMPLE_NUMBER)
  /\ LET r == detect_preamble(ProbeColumns(processed_samples))
     IN  /\ r.kind = "Detected"
         /\ r.signal_bit # SoughtBit
         /\ processed_samples' = processed_samples + r.ending_position
  /\ UNCHANGED <<stream, r_pc, r_call, samples,
                 cumulated_pos_votes, cumulated_neg_votes, cumulated_spaces>>
  /\ UNCHANGED <<framerVars, recorderVars, detectorVars, modemVars>>

\* outer loop, Preamble::Detected with the sought bit: the cursor moves, the
\* next probe is taken and the counters start at 0
ScanFound ==
  /\ r_pc = "scan"
  /\ CanTake(processed_samples, processed_samples + PROBE_SAMPLE_NUMBER)
  /\ LET r == detect_preamble(ProbeColumns(processed_samples))
         c == processed_samples + r.ending_position
     IN  /\ r.kind = "Detected"
         /\ r.signal_bit = SoughtBit
         /\ processed_samples' = c
         /\ IF CanTake(c, c + PROBE_SAMPLE_NUMBER)
            THEN /\ r_pc' = "collect"
                 /\ samples' = c
            ELSE /\ r_pc' = "starved"
                 /\ UNCHANGED samples
  /\ cumulated_pos_votes' = 0
  /\ cumulated_neg_votes' = 0
  /\ cumulated_spaces' = 0
  /\ UNCHANGED <<stream, r_call>>
  /\ UNCHANGED <<framerVars, recorderVars, detectorVars, modemVars>>

\* variant that confirms a run on more than 5 votes
AfterCollect_low(votes) ==
  IF votes > 5
  THEN IF r_call = 3
       THEN r_pc' = "synchronized" /\ UNCHANGED r_call
       ELSE r_pc' = "scan" /\ r_call' = r_call + 1
  ELSE r_pc' = "scan" /\ UNCHANGED r_call

\* variant that starts over with the first bit after a run without
\* confirmation
AfterCollect_restart(votes) ==
  IF votes > 20
  THEN IF r_call = 3
       THEN r_pc' = "synchronized" /\ UNCHANGED r_call
       ELSE r_pc' = "scan" /\ r_call' = r_call + 1
  ELSE r_pc' = "scan" /\ r_call' = 0

\* after the inner loop: more than 20 votes make detect_preambles return
\* true, which starts the next call in run / verify_preamble; otherwise the
\* outer loop goes on for the same bit
AfterCollect(votes) ==
  IF votes > 20
  THEN IF r_call = 3
       THEN r_pc' = "synchronized" /\ UNCHANGED r_call
       ELSE r_pc' = "scan" /\ r_call' = r_call + 1
  ELSE r_pc' = "scan" /\ UNCHANGED r_call

\* inner loop, Preamble::Detected that does not break: a matching bit, or
\* one of the first 3 mismatches.  The votes are added in both cases, the
\* 8-bit sum wraps in a build without overflow checks.
CollectDetected ==
  /\ r_pc = "collect"
  /\ LET r == detect_preamble(ProbeColumns(samples))
         neg == IF r.signal_bit # SoughtBit
                THEN cumulated_neg_votes + 1 ELSE cumulated_neg_votes
         c == processed_samples + r.ending_position
     IN  /\ r.kind = "Detected"
         /\ neg <= 3
         /\ cumulated_neg_votes' = neg
         /\ cumulated_pos_votes' = (cumulated_pos_votes + r.votes) % 256
         /\ processed_samples' = c
         /\ IF CanTake(c, c + PROBE_SAMPLE_NUMBER)
            THEN /\ r_pc' = "collect"
                 /\ samples' = c
            ELSE /\ r_pc' = "starved"
                 /\ UNCHANGED samples
  /\ UNCHANGED <<stream, r_call, cumulated_spaces>>
  /\ UNCHANGED <<framerVars, recorderVars, detectorVars, modemVars>>

\* inner loop, the same arm in a build with overflow checks: the addition
\* panics when the sum passes 255
CollectOverflow ==
  /\ r_pc = "collect"
  /\ LET r == detect_preamble(ProbeColumns(samples))
         neg == IF r.signal_bit # SoughtBit
                THEN cumulated_neg_votes + 1 ELSE cumulated_neg_votes
     IN  /\ r.kind = "Detected"
         /\ neg <= 3
         /\ cumulated_pos_votes + r.votes > 255
         /\ cumulated_neg_votes' = neg
  /\ r_pc' = "overflow"
  /\ UNCHANGED <<stream, r_call, processed_samples, samples,
                 cumulated_pos_votes, cumulated_spaces>>
  /\ UNCHANGED <<framerVars, recorderVars, detectorVars, modemVars>>

\* inner loop, the 4th mismatched detection: break before the votes are
\* added and before the cursor moves
CollectFallback ==
  /\ r_pc = "collect"
  /\ LET r == detect_preamble(ProbeColumns(samples))
     IN  /\ r.kind = "Detected"
         /\ r.signal_bit # SoughtBit
         /\ cumulated_neg_votes + 1 > 3
  /\ cumulated_neg_votes' = cumulated_neg_votes + 1
  /\ AfterCollect(cumulated_pos_votes)
  /\ UNCHANGED <<stream, processed_samples, samples,
                 cumulated_pos_votes, cumulated_spaces>>
  /\ UNCHANGED <<framerVars, recorderVars, detectorVars, modemVars>>

\* inner loop, Preamble::NoPreamble: the cursor moves, `samples` is not
\* taken again; more than 30 of them break
CollectSpace ==
  /\ r_pc = "collect"
  /\ detect_preamble(ProbeColumns(samples)) = NoPreamble
  /\ processed_samples' = processed_samples + PROBE_SAMPLE_NUMBER
  /\ cumulated_spaces' = cumulated_spaces + 1
  /\ IF cumulated_spaces + 1 > 30
     THEN AfterCollect(cumulated_pos_votes)
     ELSE UNCHANGED <<r_pc, r_call>>
  /\ UNCHANGED <<stream, samples, cumulated_pos_votes, cumulated_neg_votes>>
  /\ UNCHANGED <<framerVars, recorderVars, detectorVars, modemVars>>

ReceiverNext ==
  \/ ScanStarved
  \/ ScanNoPreamble
  \/ ScanOtherBit
  \/ ScanFound
  \/ CollectDetected
  \/ CollectOverflow
  \/ CollectFallback
  \/ CollectSpace

ReceiverInit == ReceiverStart(Streams)

ReceiverSpec == ReceiverInit /\ [][ReceiverNext]_vars

SyncInit == ReceiverStart(SyncStreams)

\* run is a plain loop on its own thread: it keeps taking steps
FairReceiverSpec == SyncInit /\ [][ReceiverNext]_vars /\ WF_vars(ReceiverNext)

(***************************************************************************)
(* Recorder, src/src/recorder.rs                                           *)
(*                                                                         *)
(* One capture callback (producer) and one take_samples caller (consumer)  *)
(* share ring_buffer behind one mutex.  A sample is a pair of its number   *)
(* format and its value; the value of a captured sample is its offset in   *)
(* the order of production.                                                *)
(***************************************************************************)
\* the input of a callback that follows n captured samples
Captured(n, k) == [i \in 1..k |-> <<"T", n + i - 1>>]

\* Sample::to_sample::<f32>()
to_sample_f32(x) == <<"f32", x[2]>>

\* *f as f64
as_f64(f) == <<"f64", f[2]>>

\* variant of the wait condition that looks at start
MustWait_start(len, start, end) == len < start

\* while self.ring_buffer.lock().unwrap().len() < end {}
MustWait(len, start, end) == len < end

\* variant in which the guard of the length check outlives a failed check
LockAfterCheck_kept(waiting) == IF waiting THEN "consumer" ELSE "free"

\* the guard of the length check is a temporary of the loop condition: it is
\* dropped before the loop body runs
LockAfterCheck(waiting) == "free"

\* Recorder::new, run_record, and a consumer about to call take_samples
RecorderInit ==
  /\ ring_buffer = <<>>
  /\ lock = "free"
  /\ p_pc = "idle"
  /\ p_input = <<>>
  /\ c_pc = "idle"
  /\ c_start = 0
  /\ c_end = 0
  /\ c_result = <<>>
  /\ FramerIdle
  /\ ReceiverIdle
  /\ DetectorIdle
  /\ ModemIdle

\* the audio subsystem calls write_input_data with newly captured samples
Callback ==
  /\ p_pc = "idle"
  /\ \E k \in 1..MaxChunk :
       /\ Len(ring_buffer) + k <= MaxProduced
       /\ p_input' = Captured(Len(ring_buffer), k)
  /\ p_pc' = "lock"
  /\ UNCHANGED <<ring_buffer, lock, c_pc, c_start, c_end, c_result>>
  /\ UNCHANGED <<framerVars, receiverVars, detectorVars, modemVars>>

\* write_input_data: handle.lock()
ProducerLock ==
  /\ p_pc = "lock"
  /\ lock = "free"
  /\ lock' = "producer"
  /\ p_pc' = "extend"
  /\ UNCHANGED <<ring_buffer, p_input, c_pc, c_start, c_end, c_result>>
  /\ UNCHANGED <<framerVars, receiverVars, detectorVars, modemVars>>

\* write_input_data: extend(..) under the lock, then the guard is dropped
ProducerExtend ==
  /\ p_pc = "extend"
  /\ ring_buffer' = ring_buffer \o [i \in 1..Len(p_input) |-> to_sample_f32(p_input[i])]
  /\ lock' = "free"
  /\ p_pc' = "idle"
  /\ p_input' = <<>>
  /\ UNCHANGED <<c_pc, c_start, c_end, c_result>>
  /\ UNCHANGED <<framerVars, receiverVars, detectorVars, modemVars>>

\* the consumer calls take_samples(start, end) with start < end
TakeSamples ==
  /\ c_pc \in {"idle", "returned"}
  /\ \E start \in 0..MaxProduced : \E end \in 1..(MaxProduced + 1) :
       /\ start < end
       /\ c_start' = start
       /\ c_end' = end
  /\ c_pc' = "check"
  /\ c_result' = <<>>
  /\ UNCHANGED <<ring_buffer, lock, p_pc, p_input>>
  /\ UNCHANGED <<framerVars, receiverVars, detectorVars, modemVars>>

\* take_samples: lock() of the loop condition
ConsumerLockCheck ==
  /\ c_pc = "check"
  /\ lock = "free"
  /\ lock' = "consumer"
  /\ c_pc' = "checking"
  /\ UNCHANGED <<ring_buffer, p_pc, p_input, c_start, c_end, c_result>>
  /\ UNCHANGED <<framerVars, receiverVars, detectorVars, modemVars>>

\* take_samples: len() < end under the lock; the loop spins while it holds
ConsumerCheck ==
  /\ c_pc = "checking"
  /\ LET waiting == MustWait(Len(ring_buffer), c_start, c_end)
     IN  /\ c_pc' = IF waiting THEN "check" ELSE "copy"
         /\ lock' = LockAfterCheck(waiting)
  /\ UNCHANGED <<ring_buffer, p_pc, p_input, c_start, c_end, c_result>>
  /\ UNCHANGED <<framerVars, receiverVars, detectorVars, modemVars>>

\* take_samples: the second lock()
ConsumerLockCopy ==
  /\ c_pc = "copy"
  /\ lock = "free"
  /\ lock' = "consumer"
  /\ c_pc' = "copying"
  /\ UNCHANGED <<ring_buffer, p_pc, p_input, c_start, c_end, c_result>>
  /\ UNCHANGED <<framerVars, receiverVars, detectorVars, modemVars>>

\* take_samples: ring_buffer[start..end] as f64, the guard is dropped on
\* return; the slice panics when the buffer is shorter than end
ConsumerCopy ==
  /\ c_pc = "copying"
  /\ IF c_end <= Len(ring_buffer)
     THEN /\ c_result' = [i \in 1..(c_end - c_start) |-> as_f64(ring_buffer[c_start + i])]
          /\ c_pc' = "returned"
     ELSE /\ c_pc' = "panicked"
          /\ UNCHANGED c_result
  /\ lock' = "free"
  /\ UNCHANGED <<ring_buffer, p_pc, p_input, c_start, c_end>>
  /\ UNCHANGED <<framerVars, receiverVars, detectorVars, modemVars>>

RecorderNext ==
  \/ Callback
  \/ ProducerLock
  \/ ProducerExtend
  \/ TakeSamples
  \/ ConsumerLockCheck
  \/ ConsumerCheck
  \/ ConsumerLockCopy
  \/ ConsumerCopy

RecorderSpec == RecorderInit /\ [][RecorderNext]_vars

\* both threads keep running and the mutex is handed out fairly; the audio
\* subsystem is not obliged to call back
FairRecorderSpec ==
  /\ RecorderSpec
  /\ SF_vars(ProducerLock)
  /\ WF_vars(ProducerExtend)
  /\ SF_vars(ConsumerLockCheck)
  /\ WF_vars(ConsumerCheck)
  /\ SF_vars(ConsumerLockCopy)
  /\ WF_vars(ConsumerCopy)

(***************************************************************************)
(* Properties of the packet framer                                         *)
(***************************************************************************)
CeilDiv(a, b) == (a + b - 1) \div b

\* value of the 8 bytes of frame starting at index from, read least
\* significant byte first (the model's values stay below 2^31)
LeValue(frame, from) ==
  frame[from] + 256 * frame[from + 1] + 65536 * frame[from + 2]
    + 16777216 * frame[from + 3]

IsLeField(frame, from, n) ==
  /\ \A j \in 0..7 : frame[from + j] \in 0..255
  /\ \A j \in 4..7 : frame[from + j] = 0
  /\ LeValue(frame, from) = n

DistinctOrders(P) ==
  \A i, j \in 1..Len(P) : P[i].order = P[j].order => i = j

\* C1: for every byte sequence b, also the empty one and lengths that are
\* not a multiple of 128, unpack(new_packets(b)) = b.
C1_RoundTrip ==
  (f_pc = "done" /\ f_via = "direct" /\ f_src = "chunk") => f_out = f_bytes

C1_Witness ==
  /\ f_pc = "done" /\ f_via = "direct" /\ f_src = "chunk"
  /\ Len(f_bytes) > 256 /\ Len(f_bytes) % 128 # 0
  /\ f_out = f_bytes

\* C2 as stated: for any packet list P and any order in which the sealed
\* frames are fed to unseal, unpack(unseal(seal(P))) = unpack(P).
C2_AnyPacketSet ==
  (f_pc = "done" /\ f_via = "wire") => f_out = unpack(f_packets)

\* C2 amended: for any packet list P whose order values are pairwise
\* distinct and any order in which the sealed frames are fed to unseal,
\* unpack(unseal(seal(P))) = unpack(P).
C2_DistinctOrders ==
  (f_pc = "done" /\ f_via = "wire" /\ DistinctOrders(f_packets))
    => f_out = unpack(f_packets)

C2_Witness ==
  /\ f_pc = "done" /\ f_via = "wire" /\ DistinctOrders(f_packets)
  /\ Len(f_packets) >= 2
  /\ f_fed # f_sealed
  /\ f_out = unpack(f_packets)

\* C3: new_packets(b) returns ceil(len(b)/128) packets; packet i holds the
\* bytes 128*i .. min(128*(i+1), len(b)) - 1 of b and has order i; every
\* packet has 1..128 bytes and every packet but the last exactly 128; a
\* 256-byte input gives 2 packets of 128 bytes with orders 0 and 1, the
\* empty input gives no packet.
C3_Chunking ==
  (f_pc = "packed" /\ f_src = "chunk") =>
    LET n == Len(f_bytes)
        k == Len(f_packets)
    IN  /\ k = CeilDiv(n, 128)
        /\ \A i \in 1..k :
             /\ f_packets[i].order = i - 1
             /\ f_packets[i].data = SubSeq(f_bytes, 128 * (i - 1) + 1, Min(128 * i, n))
             /\ Len(f_packets[i].data) \in 1..128
             /\ i < k => Len(f_packets[i].data) = 128
        /\ n = 256 => /\ k = 2
                      /\ Len(f_packets[1].data) = 128 /\ f_packets[1].order = 0
                      /\ Len(f_packets[2].data) = 128 /\ f_packets[2].order = 1
        /\ n = 0 => k = 0

C3_Witness ==
  /\ f_pc = "packed" /\ f_src = "chunk"
  /\ Len(f_bytes) = 257
  /\ Len(f_packets) = 3
  /\ Len(f_packets[3].data) = 1 /\ f_packets[3].order = 2

\* C4: seal emits one frame per packet, in input order: the order as 8
\* little-endian bytes, the data length as 8 little-endian bytes, then the
\* data unchanged; a frame is 16 + data length bytes long, 27 bytes for the
\* single packet of "hello world".
C4_FrameLayout ==
  (f_pc = "sealed") =>
    /\ Len(f_sealed) = Len(f_packets)
    /\ \A i \in 1..Len(f_packets) :
         LET frame == f_sealed[i]
             p == f_packets[i]
         IN  /\ Len(frame) = 16 + Len(p.data)
             /\ IsLeField(frame, 1, p.order)
             /\ IsLeField(frame, 9, Len(p.data))
             /\ SubSeq(frame, 17, Len(frame)) = p.data
    /\ (f_src = "chunk" /\ f_bytes = HelloWorld) =>
         (Len(f_sealed) = 1 /\ Len(f_sealed[1]) = 27)

C4_Witness ==
  /\ f_pc = "sealed"
  /\ Len(f_sealed) = 2
  /\ f_packets[1].order = 65537 /\ f_packets[1].data = <<66, 67>>
  /\ f_sealed[1] = <<1, 0, 1, 0, 0, 0, 0, 0, 2, 0, 0, 0, 0, 0, 0, 0, 66, 67>>

\* what the caller of unseal got
UnsealOutcome ==
  CASE f_pc = "panicked" -> "crash"
    [] f_pc = "unsealed" -> "packets"
    [] OTHER -> "pending"

FedShortFrame ==
  f_pc \in {"cut", "panicked", "unsealed"} /\ \E i \in 1..Len(f_fed) : ShortFrame(f_fed[i])

\* C5: unseal given a frame shorter than 16 + its declared length (or than
\* the 16-byte header) hands a malformed-frame failure to the caller and
\* never crashes.
C5_TypedFailure ==
  (FedShortFrame /\ UnsealOutcome # "pending") => UnsealOutcome = "malformed_frame"

(***************************************************************************)
(* Properties of the receiver                                              *)
(***************************************************************************)
IsRun(seg, col, lo, hi) == seg.col = col /\ lo <= seg.len /\ seg.len <= hi

\* the stream presents bit 1, then bit 0, then bit 1, each on at least 25
\* columns, and goes on after them
PresentsOneZeroOne ==
  /\ Len(stream) >= 4
  /\ stream[1].col = ColOne /\ stream[1].len >= 25
  /\ stream[2].col = ColZero /\ stream[2].len >= 25
  /\ stream[3].col = ColOne /\ stream[3].len >= 25

\* the stream presents the bits 0, 1, 0, 1, each on 25 to 250 columns, and
\* then a column without preamble tone or at least 4 columns of bit 0
PresentsPreamble ==
  /\ Len(stream) >= 5
  /\ IsRun(stream[1], ColZero, 25, 250)
  /\ IsRun(stream[2], ColOne, 25, 250)
  /\ IsRun(stream[3], ColZero, 25, 250)
  /\ IsRun(stream[4], ColOne, 25, 250)
  /\ \/ stream[5].col = ColNoise
     \/ stream[5].col = ColZero /\ stream[5].len >= 4

C7_RestartOnFailure ==
  /\ [](r_pc = "synchronized" => (r_call = 3 /\ cumulated_pos_votes > 20))
  /\ [][(/\ r_pc = "collect"
         /\ r_call \in 2..3
         /\ r_pc' = "scan"
         /\ cumulated_pos_votes <= 20) => r_call' \in 0..1]_vars

\* the probe whose outcome the next step handles, if any
HandlesProbe ==
  \/ r_pc = "scan" /\ CanTake(processed_samples, processed_samples + PROBE_SAMPLE_NUMBER)
  \/ r_pc = "collect"

ProbeOutcome ==
  detect_preamble(ProbeColumns(IF r_pc = "scan" THEN processed_samples ELSE samples))

\* the mismatched detection that ends a COLLECTING run
EndingMismatch ==
  /\ r_pc = "collect"
  /\ ProbeOutcome.kind = "Detected"
  /\ ProbeOutcome.signal_bit # <<0, 1, 0, 1>>[r_call + 1]
  /\ cumulated_neg_votes >= 3

AdvancesByOutcome ==
  IF ProbeOutcome.kind = "NoPreamble"
  THEN processed_samples' = processed_samples + 256
  ELSE /\ processed_samples' = processed_samples + ProbeOutcome.ending_position
       /\ ProbeOutcome.ending_position >= 128

\* C8 as stated: the cursor never decreases, and every probe outcome, in
\* SCANNING and in COLLECTING, advances it: by 256 on NoPreamble, by the
\* ending offset (at least 128) on Detected.
C8_EveryProbeAdvances ==
  [][/\ processed_samples' >= processed_samples
     /\ (HandlesProbe /\ r_pc' # "overflow") =>
          (AdvancesByOutcome /\ processed_samples' > processed_samples)]_vars

\* C8 amended: the cursor never decreases, and every probe outcome advances
\* it by 256 on NoPreamble and by the ending offset (at least 128) on
\* Detected, except the mismatched detection that ends a COLLECTING run (the
\* 4th of the run), which leaves the cursor where it is.
C8_AdvancesUnlessFallback ==
  [][/\ processed_samples' >= processed_samples
     /\ (HandlesProbe /\ r_pc' # "overflow") =>
          IF EndingMismatch
          THEN processed_samples' = processed_samples
          ELSE AdvancesByOutcome /\ processed_samples' > processed_samples]_vars

C8_Witness ==
  /\ r_pc = "scan"
  /\ r_call = 2
  /\ cumulated_neg_votes = 4
  /\ cumulated_spaces = 0
  /\ cumulated_pos_votes > 20
  /\ processed_samples > 128 * 50

(***************************************************************************)
(* Properties of the recorder                                              *)
(***************************************************************************)
\* the samples of the offsets start .. end - 1 in the order of production
ProducedRange(start, end) == [i \in 1..(end - start) |-> <<"f64", start + i - 1>>]

ConsumerPastCheck == c_pc \in {"copy", "copying", "returned"}

\* C9: take_samples(start, end) with start < end returns only once end
\* samples have been produced, and returns the end - start samples of the
\* offsets start .. end - 1 in production order; when it copies, the buffer
\* holds at least end samples; the buffer only grows at its end.
C9_TakeSamples ==
  /\ [](/\ c_pc # "panicked"
        /\ ConsumerPastCheck => Len(ring_buffer) >= c_end
        /\ c_pc = "returned" =>
             /\ Len(c_result) = c_end - c_start
             /\ c_result = ProducedRange(c_start, c_end))
  /\ [][/\ Len(ring_buffer') >= Len(ring_buffer)
        /\ SubSeq(ring_buffer', 1, Len(ring_buffer)) = ring_buffer]_vars

C9_Witness ==
  /\ c_pc = "returned"
  /\ c_start > 0
  /\ c_end - c_start >= 2
  /\ Len(ring_buffer) > c_end
  /\ c_result = ProducedRange(c_start, c_end)

\* C10: with a fair mutex, every append of the producer completes, and a
\* consumer waiting in take_samples(start, end) returns once the buffer
\* holds end samples.
C10_NoStarvation ==
  /\ (p_pc = "lock") ~> (p_pc = "idle")
  /\ (c_pc \in {"check", "checking"} /\ Len(ring_buffer) >= c_end) ~> (c_pc = "returned")

C10_Witness ==
  /\ p_pc = "lock"
  /\ lock = "consumer"
  /\ c_pc = "checking"
  /\ Len(ring_buffer) < c_end

(***************************************************************************)
(* Properties of detect_preamble                                           *)
(***************************************************************************)
\* the vote of each column of the probe under call
ProbeVotes == [k \in 1..StreamColumns(d_probe) |-> ColumnVote(ColumnAt(d_probe, k))]

FirstOf(S) == CHOOSE k \in S : \A j \in S : k <= j

BitOf(vote) == IF vote = "zero" THEN 0 ELSE 1

\* the run of agreeing votes that opens the probe: whether any column
\* votes, the bit of the first vote, whether a later column votes against
\* it, the index of the first such column, and the number of voting columns
\* before that column
RunOf(votes) ==
  LET voting == {k \in DOMAIN votes : votes[k] # "none"}
      first == FirstOf(voting)
      conflicting == {k \in voting : votes[k] # votes[first]}
      stop == IF conflicting = {} THEN Len(votes) + 1 ELSE FirstOf(conflicting)
  IN  IF voting = {}
      THEN [voted |-> FALSE, conflict |-> FALSE]
      ELSE [voted |-> TRUE, bit |-> BitOf(votes[first]),
            conflict |-> conflicting # {}, stop |-> stop,
            count |-> Cardinality({k \in voting : k < stop})]

\* C11: detect_preamble returns NoPreamble exactly when no column of the
\* probe cast a vote; otherwise it returns Detected with the bit of the votes
\* of the run and with votes equal to the number of voting columns of the
\* run, whatever the number of columns of the probe.
C11_VotesOfRun ==
  d_pc # "input" =>
    LET run == RunOf(ProbeVotes)
    IN  /\ d_pc = "returned"
        /\ (d_result = NoPreamble) <=> ~run.voted
        /\ run.voted =>
             /\ d_result.kind = "Detected"
             /\ d_result.signal_bit = run.bit
             /\ d_result.votes = run.count

\* C12: once a vote for one bit has been cast, the first later column that
\* votes for the other bit ends the scan: the result reports the first bit,
\* only the votes cast before the conflicting column, and the sample offset
\* just before that column (128 samples for each column before it).
C12_ConflictEndsScan ==
  d_pc # "input" =>
    LET run == RunOf(ProbeVotes)
    IN  run.conflict =>
          /\ d_pc = "returned"
          /\ d_result.kind = "Detected"
          /\ d_result.signal_bit = run.bit
          /\ d_result.votes = run.count
          /\ d_result.ending_position = STEP_SIZE * (run.stop - 1)

MatchesPreamble(freq, bit) == Abs(freq - PREAMBLE_FREQS[bit + 1]) < 10

\* the vote of a column that is classified by its top frequency alone
TopVote(col) ==
  IF MatchesPreamble(col[1], 0) THEN "zero"
  ELSE IF MatchesPreamble(col[1], 1) THEN "one"
  ELSE "none"

\* the vote of a column that is classified by the first of its frequencies,
\* in the order of rank, that matches a preamble frequency
FirstMatchVote(col) ==
  LET matching == {i \in DOMAIN col :
                     MatchesPreamble(col[i], 0) \/ MatchesPreamble(col[i], 1)}
  IN  IF matching = {} THEN "none"
      ELSE IF MatchesPreamble(col[FirstOf(matching)], 0) THEN "zero"
      ELSE "one"

\* the returned result is the one that the votes give
ResultOf(votes) ==
  LET run == RunOf(votes)
  IN  IF ~run.voted THEN d_result = NoPreamble
      ELSE /\ d_result.kind = "Detected"
           /\ d_result.signal_bit = run.bit
           /\ d_result.votes = run.count
           /\ d_result.ending_position =
                STEP_SIZE * (IF run.conflict THEN run.stop - 1 ELSE Len(votes))

\* the call under check returned from a probe whose votes fit the counters
ReturnedInRange == d_pc = "returned" /\ StreamColumns(d_probe) <= U8_MAX

\* C20 as stated: a column votes by its top dominant frequency only; a
\* lower-ranked frequency of the cluster that matches a preamble frequency
\* casts no vote.
C20_TopFrequencyOnly ==
  ReturnedInRange =>
    ResultOf([k \in 1..StreamColumns(d_probe) |-> TopVote(ColumnAt(d_probe, k))])

\* C20 amended: a column votes by the first frequency of its dominant
\* cluster, in the order of rank, that is within tolerance of a preamble
\* frequency; it casts no vote only when no frequency of the cluster
\* matches (probes of at most 255 columns).
C20_FirstMatchingFrequency ==
  ReturnedInRange =>
    ResultOf([k \in 1..StreamColumns(d_probe) |-> FirstMatchVote(ColumnAt(d_probe, k))])

C20_Witness ==
  /\ d_pc = "returned"
  /\ d_probe = <<Run(ColNoiseOne, 1)>>
  /\ d_result = Detected(128, 1, 1)

(***************************************************************************)
(* Properties of the modulation                                            *)
(***************************************************************************)
HalfByteDone == m_fn = "modulate_half_byte" /\ m_pc \in {"demodulated", "panicked"}

\* C13: for every nibble n in 0..15, n = 0 included,
\* demodulate_half_byte(modulate_half_byte(n)) returns n.
C13_NibbleRoundTrip ==
  (HalfByteDone /\ m_in \in 0..15) => m_out = Returned(m_in)

OutOfRange ==
  \/ m_fn = "modulate_bit" /\ m_in \notin {0, 1}
  \/ m_fn = "modulate_half_byte" /\ m_in > 15

\* C14: a value outside the range of single-symbol modulation is never
\* accepted: modulate_bit with a value other than 0 and 1, and
\* modulate_half_byte with a value above 15, abort and produce no waveform.
C14_OutOfRangeAborts ==
  (m_pc # "input" /\ OutOfRange) => (m_wave = Panic /\ m_pc = "panicked")

(***************************************************************************)
(* Properties of the COLLECTING and SCANNING loops of the receiver         *)
(***************************************************************************)
\* the NoPreamble probe that ends a COLLECTING run
EndingSpace ==
  /\ r_pc = "collect"
  /\ ProbeOutcome.kind = "NoPreamble"
  /\ cumulated_spaces >= 30

\* the step makes detect_preambles return true
Confirms ==
  /\ r_pc = "collect"
  /\ r_call' = r_call + 1 \/ r_pc' = "synchronized"

\* C15 as stated: the step of a COLLECTING run that takes the votes above 20
\* confirms the run, without a further mismatched or NoPreamble probe.
C15_AsSoonAsExceeds ==
  [][(/\ r_pc = "collect"
      /\ cumulated_pos_votes <= 20
      /\ cumulated_pos_votes' > 20) => Confirms]_vars

\* C15 amended: a COLLECTING run is confirmed exactly when it ends, on the
\* 4th mismatched detection or on the 31st NoPreamble probe, with the vote
\* counter above 20; votes passing 20 do not end the run.
C15_ConfirmedAtRunEnd ==
  [][Confirms <=> ((EndingMismatch \/ EndingSpace) /\ cumulated_pos_votes > 20)]_vars

C15_Witness ==
  /\ r_pc = "scan"
  /\ r_call = 1
  /\ cumulated_pos_votes > 20
  /\ cumulated_spaces = 31
  /\ cumulated_neg_votes = 0

\* C16: in COLLECTING the vote total compared with the threshold is the
\* sum of the votes of the Detected results whose bit is the sought bit:
\* such a result adds its votes, a mismatched result adds nothing.
C16_OnlyMatchingVotes ==
  [][(r_pc = "collect" /\ ProbeOutcome.kind = "Detected") =>
       cumulated_pos_votes' =
         IF ProbeOutcome.signal_bit = <<0, 1, 0, 1>>[r_call + 1]
         THEN cumulated_pos_votes + ProbeOutcome.votes
         ELSE cumulated_pos_votes]_vars

\* C17: in COLLECTING a NoPreamble probe advances the cursor by 256 and the
\* next probe is read at the new cursor, so that a matching detection that
\* follows at most 30 NoPreamble probes is still accumulated; the count of
\* NoPreamble probes starts again after a Detected result.
C17_NextProbeAtCursor ==
  [][r_pc = "collect" =>
       /\ ProbeOutcome.kind = "NoPreamble" =>
            processed_samples' = processed_samples + 256
       /\ r_pc' = "collect" => samples' = processed_samples'
       /\ (ProbeOutcome.kind = "Detected" /\ r_pc' = "collect") =>
            cumulated_spaces' = 0]_vars

\* a mismatched detection that is not the 4th of its COLLECTING run
ToleratedMismatch ==
  /\ r_pc = "collect"
  /\ ProbeOutcome.kind = "Detected"
  /\ ProbeOutcome.signal_bit # <<0, 1, 0, 1>>[r_call + 1]
  /\ cumulated_neg_votes < 3

\* C18: in COLLECTING up to 3 mismatched detections are tolerated: each is
\* consumed and the run goes on.  The 4th ends the run and its window is not
\* consumed.  A run that ends with at most 20 votes is not confirmed: the
\* receiver is back in SCANNING for the same sought bit.
C18_MismatchTolerance ==
  [][/\ (ToleratedMismatch /\ r_pc' # "overflow") =>
          /\ r_pc' \in {"collect", "starved"}
          /\ r_call' = r_call
          /\ cumulated_neg_votes' = cumulated_neg_votes + 1
          /\ processed_samples' = processed_samples + ProbeOutcome.ending_position
     /\ EndingMismatch =>
          /\ r_pc' \in {"scan", "synchronized"}
          /\ processed_samples' = processed_samples
     /\ ((EndingMismatch \/ EndingSpace) /\ cumulated_pos_votes <= 20) =>
          /\ r_pc' = "scan"
          /\ r_call' = r_call]_vars

C18_Witness ==
  /\ r_pc = "scan"
  /\ r_call = 1
  /\ cumulated_neg_votes = 4
  /\ cumulated_pos_votes \in 1..20

\* the vote of the column computed from the 256 samples that start at the
\* cursor
VoteAtCursor == ColumnVote(ColumnAt(stream, processed_samples \div 128 + 1))

\* C19: in SCANNING a probe is the 256 samples from the cursor on, and is
\* taken as soon as the source holds them.  On NoPreamble the cursor
\* advances by 256 and the receiver stays in SCANNING; on Detected the
\* cursor advances by the ending offset of the result (128 for this probe),
\* and COLLECTING is entered only if the detected bit is the sought bit.
C19_ScanningProbe ==
  [][r_pc = "scan" =>
       IF StreamSamples(stream) < processed_samples + 256
       THEN processed_samples' = processed_samples /\ r_pc' = "starved"
       ELSE IF VoteAtCursor = "none"
       THEN /\ processed_samples' = processed_samples + 256
            /\ r_pc' = "scan"
            /\ r_call' = r_call
       ELSE /\ processed_samples' = processed_samples + 128
            /\ r_call' = r_call
            /\ IF BitOf(VoteAtCursor) = <<0, 1, 0, 1>>[r_call + 1]
               THEN r_pc' \in {"collect", "starved"}
               ELSE r_pc' = "scan"]_vars

C19_Witness ==
  /\ r_pc = "collect"
  /\ r_call = 0
  /\ cumulated_pos_votes = 0
  /\ cumulated_neg_votes = 0
  /\ cumulated_spaces = 0
  /\ processed_samples >= 2 * 256 + 128
  /\ samples = processed_samples

(***************************************************************************)
(* Properties of the demodulation                                          *)
(***************************************************************************)
\* demodulate_half_byte has run on the column m_column
Demodulated == m_pc \in {"demodulated", "panicked"} /\ m_column # <<>>

\* the carriers (from 0) that are among the frequencies
CarriersIn(freqs) ==
  {idx \in 0..(FREQ_NUMBER - 1) :
     \E p \in DOMAIN freqs : freqs[p] = CARRIER_FREQS[idx + 1]}

\* C21: decode_by_given_freq_pattern returns the OR of the bits idx of the
\* dominant frequencies that equal carrier idx; a dominant frequency that
\* equals no carrier contributes no bit and does not abort the call.
C21_IgnoresNonCarriers ==
  Demodulated => m_out = Returned(BitsOf(CarriersIn(m_freqs)))

\* the bin (from 0) that has the frequency freq
BinOf(freq) == CHOOSE k \in 0..(output_size - 1) : FFT_FREQS(k) = freq

\* the energy of the column in the bin of the frequency freq
EnergyOf(freq) == m_column[BinOf(freq) + 1]

\* C22: detect_main_freqs on a non-empty column returns the frequencies of a
\* prefix of the bins ranked by falling energy: it starts with a bin of the
\* highest energy, each further bin is within 3.0 of the bin kept before it,
\* and the prefix is the longest such: every bin left out lies more than 3.0
\* below the last bin kept.
C22_LongestPrefix ==
  Demodulated =>
    LET kept == Len(m_freqs)
        last == EnergyOf(m_freqs[kept])
    IN  /\ kept >= 1
        /\ Cardinality({m_freqs[p] : p \in 1..kept}) = kept
        /\ \A k \in 1..output_size : m_column[k] <= EnergyOf(m_freqs[1])
        /\ \A p \in 2..kept :
             /\ EnergyOf(m_freqs[p]) <= EnergyOf(m_freqs[p - 1])
             /\ EnergyOf(m_freqs[p - 1]) - EnergyOf(m_freqs[p]) <= 3 * ENERGY_UNIT
        /\ \A k \in 0..(output_size - 1) :
             (\A p \in 1..kept : m_freqs[p] # FFT_FREQS(k)) =>
               last - m_column[k + 1] > 3 * ENERGY_UNIT

\* a chain of kept bins that reaches more than 3.0 below the top bin
C22_Witness ==
  /\ Demodulated
  /\ m_fn = "demodulate_half_byte"
  /\ Len(m_freqs) > 3
  /\ EnergyOf(m_freqs[1]) = 8 * ENERGY_UNIT
  /\ EnergyOf(m_freqs[3]) = 3 * ENERGY_UNIT

(***************************************************************************)
(* Properties of the vote accumulator and of the BPSK modulation           *)
(***************************************************************************)
\* C23: the vote accumulator of a COLLECTING run is the arithmetic sum of
\* the votes added to it, however long the run: a detection whose votes are
\* added raises it by exactly these votes, it never wraps and the addition
\* never aborts.
C23_TrueSum ==
  [][(r_pc = "collect" /\ ProbeOutcome.kind = "Detected" /\ ~EndingMismatch) =>
       /\ r_pc' # "overflow"
       /\ cumulated_pos_votes' = cumulated_pos_votes + ProbeOutcome.votes]_vars

\* the bytes of all the segments in the order of input
RECURSIVE AllBytes(_)
AllBytes(segments) ==
  IF segments = <<>> THEN <<>> ELSE Head(segments) \o AllBytes(Tail(segments))

\* C24: modulate emits, for every byte of every segment in the order of
\* input, 8 symbols of 4400 samples, symbol i (0..7) being the reference
\* sine when bit i of the byte is 0 and the negated sine when it is 1; no
\* call of modulate_bit aborts.
C24_BitPerSymbol ==
  (m_fn = "modulate" /\ m_pc # "input") =>
    LET bytes == AllBytes(m_in)
    IN  m_wave = Returned(
          [s \in 1..(8 * Len(bytes)) |->
             [kind |-> "bpsk",
              sign |-> IF (bytes[(s - 1) \div 8 + 1] \div (2 ^ ((s - 1) % 8))) % 2 = 1
                       THEN -1 ELSE 1,
              len |-> 4400]])

====
